---- MODULE Spec2Model ----
(***************************************************************************)
(* Model of the smart meter simulator (src/app.py, class SmartMeterSystem):*)
(* the persisted simulated clock, the account list, the in-memory          *)
(* latest_readings and daily_cache, the daily_readings directory tree and  *)
(* month_readings.json, with one action per public operation.              *)
(*                                                                         *)
(* Times are minutes since datetime(2024, 5, 1); calendar fields are       *)
(* computed from that as the datetime library does.  Meter values are      *)
(* integers counting ValueUnit-ths of 0.001, so that round(x, 3) is a real *)
(* conversion.                                                             *)
(***************************************************************************)
EXTENDS Integers, Sequences, FiniteSets, TLC

VARIABLES
    accounts,           \* all_account.json: list of account records
    current_time_file,  \* current_time.json: NoFile or File(the saved time)
    latest_readings,    \* self.latest_readings: meter id -> value
    daily_cache,        \* self.daily_cache: list of MeterReading
    month_dirs,         \* sub-directories of daily_readings: <<year, month>>
    daily_files,        \* readings_YYYYMMDD.json: <<year, month, day>> -> content
    monthly_file,       \* month_readings.json: NoFile or File(meter -> (month key -> value))
    response,           \* what the last call returned or raised
    archive_log,        \* _archive_and_prepare_monthly_data invocations of the last call
    random_state,       \* the random module's generator: the number of draws made
    calc,               \* arguments and result of a method that is run on its own
    calls               \* number of calls made that changed the stored data

vars == <<accounts, current_time_file, latest_readings, daily_cache, month_dirs,
          daily_files, monthly_file, response, archive_log, random_state,
          calc, calls>>

-----------------------------------------------------------------------------
(* Bounds of the exploration *)

MaxCalls == 4
MaxIncrement == 2
MaxCalcDay == 250
MaxCalcValue == 13
MaxCacheLen == 2
MaxCommits == 2
MaxArchives == 2

\* the ids that get registered, in the order of their first registration
MeterIds == <<"A", "B">>
\* a file that may be missing: <<>> when it is, <<content>> otherwise
NoFile == <<>>
File(content) == <<content>>
EmptyMap == [x \in {} |-> 0]

-----------------------------------------------------------------------------
(* datetime and calendar arithmetic *)

EpochYear == 2024
EpochMonth == 5
MinutesPerDay == 1440
ValueUnit == 2

\* calendar.monthrange(year, month)[1]
IsLeap(year) == (year % 4 = 0) /\ ((year % 100 # 0) \/ (year % 400 = 0))

monthrange(year, month) ==
    IF month = 2 THEN (IF IsLeap(year) THEN 29 ELSE 28)
    ELSE IF month \in {4, 6, 9, 11} THEN 30 ELSE 31

\* months are numbered from the epoch month: 0 is 2024-05, -1 is 2024-04
FirstMonthIdx == 0 - 4
LastMonthIdx == MaxCalls + MaxCalcValue + (MaxCalcDay \div 28) + 2

YearOfIdx(mi) == EpochYear + ((mi + EpochMonth - 1) \div 12)
MonthOfIdx(mi) == ((mi + EpochMonth - 1) % 12) + 1
IdxOf(year, month) == (year - EpochYear) * 12 + (month - EpochMonth)

RECURSIVE DaysBetween(_, _)
\* number of days in the months a .. b-1
DaysBetween(a, b) ==
    IF a >= b THEN 0
    ELSE monthrange(YearOfIdx(a), MonthOfIdx(a)) + DaysBetween(a + 1, b)

\* day number (days since the epoch) of the first day of each month
MonthFirstDay ==
    [mi \in FirstMonthIdx..(LastMonthIdx + 1) |->
        IF mi >= 0 THEN DaysBetween(0, mi) ELSE 0 - DaysBetween(mi, 0)]

DayNumber(t) == t \div MinutesPerDay
IdxOfDay(d) ==
    CHOOSE mi \in FirstMonthIdx..LastMonthIdx :
        MonthFirstDay[mi] <= d /\ d < MonthFirstDay[mi + 1]

Year(t) == YearOfIdx(IdxOfDay(DayNumber(t)))
Month(t) == MonthOfIdx(IdxOfDay(DayNumber(t)))
Day(t) == DayNumber(t) - MonthFirstDay[IdxOfDay(DayNumber(t))] + 1
Hour(t) == (t % MinutesPerDay) \div 60
Minute(t) == t % 60

\* datetime.datetime(year, month, day, hour, minute)
MkTime(year, month, day, hour, minute) ==
    (MonthFirstDay[IdxOf(year, month)] + day - 1) * MinutesPerDay + hour * 60 + minute

Epoch == MkTime(EpochYear, EpochMonth, 1, 0, 0)

\* strftime("%H:%M"): the time of day as the number HHMM, the date is dropped
TimeOfDay(t) == Hour(t) * 100 + Minute(t)
\* strftime("%Y%m") / strftime("%Y-%m") and strftime("%Y%m%d")
MonthKey(t) == <<Year(t), Month(t)>>
DayKey(t) == <<Year(t), Month(t), Day(t)>>

\* order of "HH:MM" strings
TimeLeq(a, b) == a <= b

\* round(x, 3) on a value counted in ValueUnit-ths of 0.001
round3(x) == ValueUnit * ((2 * x + ValueUnit) \div (2 * ValueUnit))

Put(f, k, v) == [x \in (DOMAIN f) \cup {k} |-> IF x = k THEN v ELSE f[x]]

Min(a, b) == IF a <= b THEN a ELSE b

-----------------------------------------------------------------------------
(* The parts of the state the handlers pass along while they run.  The     *)
(* operators below take such a record w and return the updated one:        *)
(*   w.latest_readings, w.daily_cache        the object's fields           *)
(*   w.month_dirs, w.daily_files             the daily_readings tree       *)
(*   w.monthly_file                          month_readings.json           *)
(*   w.random_state                          the generator                 *)
(*   w.all_readings                          the list the call returns     *)
(*   w.archive_log                           monthly archiver invocations  *)

\* a variant of uniform that draws around zero, as random.uniform(-1, 1) would
uniformAroundZero(rs) == ((rs.draws + (rs.draws \div 3)) % (MaxIncrement + 1)) - 1

\* random.uniform(0, 1): the generator's next draw, in value units.  The
\* generator is deterministic: its draws are a fixed sequence over
\* 0..MaxIncrement, here a function of the number of earlier draws.
uniform(rs) == (rs.draws + (rs.draws \div 3)) % (MaxIncrement + 1)

\* sorted(readings, key=lambda x: x["time"]): a stable sort, so an entry goes
\* after the entries with a smaller time and after the earlier entries with
\* the same time
SortedByTime(readings) ==
    LET n == Len(readings)
        Before(j, i) == \/ ~TimeLeq(readings[i].time, readings[j].time)
                        \/ (readings[i].time = readings[j].time /\ j < i)
        place == [i \in 1..n |-> Cardinality({j \in 1..n : Before(j, i)}) + 1]
    IN  [p \in 1..n |-> readings[CHOOSE i \in 1..n : place[i] = p]]

\* _cleanup_old_readings: remove every month directory dated before
\* last_month_first, with the files in it
_cleanup_old_readings(w, last_month_first) ==
    LET old == {dir \in w.month_dirs : MkTime(dir[1], dir[2], 1, 0, 0) < last_month_first}
        kept == {k \in DOMAIN w.daily_files : <<k[1], k[2]>> \notin old}
    IN  [w EXCEPT !.month_dirs = @ \ old,
                  !.daily_files = [k \in kept |-> w.daily_files[k]]]

\* a variant of FirstAndLastOfFile that keeps the last reading of the first
\* file a meter is in, as it keeps the first one
FirstAndLastOfFirstFile(files, dir, day, fl) ==
    IF <<dir[1], dir[2], day>> \notin DOMAIN files THEN fl
    ELSE
        LET daily_data == files[<<dir[1], dir[2], day>>]
            first_value(m) == SortedByTime(daily_data[m].readings)[1].value
            last_value(m) ==
                SortedByTime(daily_data[m].readings)[Len(daily_data[m].readings)].value
        IN  [first |-> [m \in (DOMAIN fl.first) \cup (DOMAIN daily_data) |->
                            IF m \in DOMAIN fl.first THEN fl.first[m] ELSE first_value(m)],
             last |-> [m \in (DOMAIN fl.last) \cup (DOMAIN daily_data) |->
                            IF m \in DOMAIN fl.last THEN fl.last[m] ELSE last_value(m)]]

\* one pass of the loop over sorted(os.listdir(process_month_daily_dir)), for
\* the file of the given day; fl holds first_readings and last_readings
FirstAndLastOfFile(files, dir, day, fl) ==
    IF <<dir[1], dir[2], day>> \notin DOMAIN files THEN fl
    ELSE
        LET daily_data == files[<<dir[1], dir[2], day>>]
            first_value(m) == SortedByTime(daily_data[m].readings)[1].value
            last_value(m) ==
                SortedByTime(daily_data[m].readings)[Len(daily_data[m].readings)].value
        IN  [first |-> [m \in (DOMAIN fl.first) \cup (DOMAIN daily_data) |->
                            IF m \in DOMAIN fl.first THEN fl.first[m] ELSE first_value(m)],
             last |-> [m \in (DOMAIN fl.last) \cup (DOMAIN daily_data) |->
                            IF m \in DOMAIN daily_data THEN last_value(m) ELSE fl.last[m]]]

\* the loop over the files of the days lo..hi, in the order of their names
\* (the range is halved to keep the evaluation shallow)
RECURSIVE FirstAndLast(_, _, _, _, _)
RECURSIVE FirstAndLastFrom(_, _, _, _, _)
FirstAndLast(files, dir, lo, hi, fl) ==
    IF lo > hi THEN fl
    ELSE IF lo = hi THEN FirstAndLastOfFile(files, dir, lo, fl)
    ELSE FirstAndLastFrom(files, dir, ((lo + hi) \div 2) + 1, hi,
                          FirstAndLast(files, dir, lo, (lo + hi) \div 2, fl))

\* the files of the days lo..hi once the earlier ones gave fl
FirstAndLastFrom(files, dir, lo, hi, fl) ==
    IF DOMAIN fl.first \subseteq DOMAIN fl.last    \* the earlier files are read first
    THEN FirstAndLast(files, dir, lo, hi, fl) ELSE fl

\* the record of one run of _archive_and_prepare_monthly_data: w is the state
\* it started from, after the state it left
ArchiveRun(w, after, current_date, dir, returned_early) ==
    [after EXCEPT !.archive_log =
        Append(@, [current_date |-> current_date,
                   month_to_process |-> dir,
                   returned_early |-> returned_early,
                   daily_files_before |-> w.daily_files,
                   monthly_file_before |-> w.monthly_file,
                   daily_files_after |-> after.daily_files,
                   month_dirs_after |-> after.month_dirs,
                   monthly_file_after |-> after.monthly_file])]

\* a variant of the second half of _archive_and_prepare_monthly_data that
\* gives a meter a new record holding the processed month alone
ArchiveTotalsFreshRecord(w, current_date, dir, last_month_first, fl) ==
    LET monthly_data == IF w.monthly_file = NoFile THEN EmptyMap ELSE w.monthly_file[1]
        merged == [m \in (DOMAIN monthly_data) \cup (DOMAIN fl.first) |->
                    IF m \in DOMAIN fl.first
                    THEN Put(EmptyMap, dir, round3(fl.last[m] - fl.first[m]))
                    ELSE monthly_data[m]]
    IN  ArchiveRun(w,
                   _cleanup_old_readings(
                       [w EXCEPT !.month_dirs = @ \cup {dir},
                                 !.monthly_file = File(merged)],
                       last_month_first),
                   current_date, dir, FALSE)

\* a variant of the second half of _archive_and_prepare_monthly_data that
\* records a total of 0 for a meter of the ledger with no reading in the month
ArchiveTotalsZeroWhenEmpty(w, current_date, dir, last_month_first, fl) ==
    LET monthly_data == IF w.monthly_file = NoFile THEN EmptyMap ELSE w.monthly_file[1]
        merged == [m \in (DOMAIN monthly_data) \cup (DOMAIN fl.first) |->
                    IF m \in DOMAIN fl.first
                    THEN Put(IF m \in DOMAIN monthly_data THEN monthly_data[m] ELSE EmptyMap,
                             dir, round3(fl.last[m] - fl.first[m]))
                    ELSE Put(monthly_data[m], dir, 0)]
    IN  ArchiveRun(w,
                   _cleanup_old_readings(
                       [w EXCEPT !.month_dirs = @ \cup {dir},
                                 !.monthly_file = File(merged)],
                       last_month_first),
                   current_date, dir, FALSE)

\* the second half of _archive_and_prepare_monthly_data: the totals of the
\* meters in fl are merged into month_readings.json, then the old month
\* directories are removed
ArchiveTotals(w, current_date, dir, last_month_first, fl) ==
    LET monthly_data == IF w.monthly_file = NoFile THEN EmptyMap ELSE w.monthly_file[1]
        merged == [m \in (DOMAIN monthly_data) \cup (DOMAIN fl.first) |->
                    IF m \in DOMAIN fl.first
                    THEN Put(IF m \in DOMAIN monthly_data THEN monthly_data[m] ELSE EmptyMap,
                             dir, round3(fl.last[m] - fl.first[m]))
                    ELSE monthly_data[m]]
    IN  ArchiveRun(w,
                   _cleanup_old_readings(
                       \* get_month_directory makes the directory
                       [w EXCEPT !.month_dirs = @ \cup {dir},
                                 !.monthly_file = File(merged)],
                       last_month_first),
                   current_date, dir, FALSE)

\* date.replace(day=1), at 00:00
FirstOfMonth(t) == MkTime(Year(t), Month(t), 1, 0, 0)

\* _archive_and_prepare_monthly_data
_archive_and_prepare_monthly_data(w, current_date) ==
    LET first_of_current == FirstOfMonth(current_date)
        last_month == first_of_current - MinutesPerDay
        last_month_first == FirstOfMonth(last_month)
        month_to_process == FirstOfMonth(last_month_first - MinutesPerDay)
    IN  IF month_to_process < Epoch
        THEN ArchiveRun(w, w, current_date, MonthKey(month_to_process), TRUE)
        ELSE ArchiveTotals(w, current_date, MonthKey(month_to_process), last_month_first,
                           FirstAndLast(w.daily_files, MonthKey(month_to_process), 1, 31,
                                        [first |-> EmptyMap, last |-> EmptyMap]))

\* a variant of _process_daily_data that adds the readings to those the file
\* of current_date holds and leaves the cache as it is
_process_daily_data_appending(w, current_date) ==
    IF w.daily_cache = <<>> THEN w
    ELSE
        LET ids == {w.daily_cache[i].meter_id : i \in 1..Len(w.daily_cache)}
            of(m) == SelectSeq(w.daily_cache, LAMBDA r : r.meter_id = m)
            held(m) == IF DayKey(current_date) \in DOMAIN w.daily_files
                       THEN IF m \in DOMAIN w.daily_files[DayKey(current_date)]
                            THEN w.daily_files[DayKey(current_date)][m].readings
                            ELSE <<>>
                       ELSE <<>>
            entries(rs) == [i \in 1..Len(rs) |->
                              [time |-> TimeOfDay(rs[i].reading_time),
                               value |-> round3(rs[i].meter_value)]]
            daily_data ==
                [m \in ids |-> [date |-> DayKey(current_date),
                                readings |-> held(m) \o entries(of(m))]]
        IN  [w EXCEPT !.month_dirs = @ \cup {MonthKey(current_date)},
                      !.daily_files = Put(@, DayKey(current_date), daily_data)]

\* _process_daily_data: write the whole cache to the file of current_date
_process_daily_data(w, current_date) ==
    IF w.daily_cache = <<>> THEN w
    ELSE
        LET ids == {w.daily_cache[i].meter_id : i \in 1..Len(w.daily_cache)}
            of(m) == SelectSeq(w.daily_cache, LAMBDA r : r.meter_id = m)
            entries(rs) == [i \in 1..Len(rs) |->
                              [time |-> TimeOfDay(rs[i].reading_time),
                               value |-> round3(rs[i].meter_value)]]
            daily_data ==
                [m \in ids |-> [date |-> DayKey(current_date), readings |-> entries(of(m))]]
        IN  [w EXCEPT !.month_dirs = @ \cup {MonthKey(current_date)},
                      !.daily_files = Put(@, DayKey(current_date), daily_data),
                      !.daily_cache = <<>>]

\* how many passes draw readings before the loop ends.  Pass k ends the loop
\* when its reading_time = start + 30 k is after next_time or in hour 0; start
\* is on the hour and not in hour 0, so the first reading_time in hour 0 is
\* the next midnight.
Passes(start, next_time) ==
    IF ~(start <= next_time) THEN 0
    ELSE Min((next_time - start) \div 30,
             ((MinutesPerDay - (start % MinutesPerDay)) \div 30) - 1)

\* The readings of one run of the loop "while current <= next_time" are
\* gathered in a record r before they are added to the lists:
\*   r.latest_readings, r.random_state   as in w
\*   r.readings                          the readings drawn so far, which the
\*                                       code appends to all_readings and to
\*                                       daily_cache one by one

\* the loop "for account in accounts" at one reading_time
RECURSIVE ReadAccounts(_, _, _, _)
ReadAccounts(r, accounts_, i, reading_time) ==
    IF i > Len(accounts_) THEN r
    ELSE
        LET meter_id == accounts_[i].meter_ID
            previous_value == IF meter_id \in DOMAIN r.latest_readings
                              THEN r.latest_readings[meter_id] ELSE 0
            increment == uniform(r.random_state)
            meter_value == previous_value + increment
            reading == [meter_id |-> meter_id,
                        reading_time |-> reading_time,
                        meter_value |-> round3(meter_value)]
        IN  ReadAccounts(
                [latest_readings |-> Put(r.latest_readings, meter_id, meter_value),
                 random_state |-> [r.random_state EXCEPT !.draws = @ + 1],
                 readings |-> Append(r.readings, reading)],
                accounts_, i + 1, reading_time)

\* the passes k = lo..hi of the loop "while current <= next_time" that draw
\* readings: pass k has reading_time = start + 30 k (the range is halved to
\* keep the evaluation shallow)
RECURSIVE ReadSlots(_, _, _, _, _)
RECURSIVE ReadSlotsFrom(_, _, _, _, _)
ReadSlots(r, start, lo, hi, accounts_) ==
    IF lo > hi THEN r
    ELSE IF lo = hi THEN ReadAccounts(r, accounts_, 1, start + 30 * lo)
    ELSE ReadSlotsFrom(ReadSlots(r, start, lo, (lo + hi) \div 2, accounts_),
                       start, ((lo + hi) \div 2) + 1, hi, accounts_)

\* the passes lo..hi once the earlier ones gave r
ReadSlotsFrom(r, start, lo, hi, accounts_) ==
    IF r.random_state.draws >= 0    \* the earlier passes are made first
    THEN ReadSlots(r, start, lo, hi, accounts_) ELSE r

\* the readings r of one run of the loop, added to the lists of w
AddReadings(w, r) ==
    [w EXCEPT !.latest_readings = r.latest_readings,
              !.random_state = r.random_state,
              !.all_readings = @ \o r.readings,
              !.daily_cache = @ \o r.readings]

\* all the passes that draw readings, from start to next_time
ReadAll(w, start, next_time, accounts_) ==
    AddReadings(w, ReadSlots([latest_readings |-> w.latest_readings,
                              random_state |-> w.random_state, readings |-> <<>>],
                             start, 1, Passes(start, next_time), accounts_))

\* "if current.day == 1" in the maintenance period: the first of a month runs
\* the monthly archiver
Maintenance(w, current) ==
    IF Day(current) = 1 THEN _archive_and_prepare_monthly_data(w, current) ELSE w

\* the loop "while current <= next_time" of _generate_readings
SampleLoop(w, current, next_time, accounts_) ==
    IF ~(current <= next_time) THEN w
    ELSE IF Hour(current) = 0
    \* the maintenance period: the cache goes to the file of the day of
    \* process_date = current - 1 minute, then the loop goes on from 01:00
    THEN ReadAll(Maintenance(IF DayNumber(current - 1) >= DayNumber(Epoch)
                             THEN _process_daily_data(w, current - 1) ELSE w,
                             current),
                 \* current.replace(hour=1)
                 current - (current % MinutesPerDay) + 60 + Minute(current),
                 next_time, accounts_)
    ELSE ReadAll(w, current, next_time, accounts_)

\* a variant of the end of _generate_readings that leaves the cache pending
CommitCacheSkipped(w) == w

\* "if self.daily_cache" at the end of _generate_readings
CommitCache(w) ==
    IF w.daily_cache # <<>>
    THEN _process_daily_data(w, w.daily_cache[Len(w.daily_cache)].reading_time)
    ELSE w

\* _generate_readings for a span of at most one day
GenerateWithinDay(w, current_time, next_time, accounts_) ==
    CommitCache(SampleLoop(w, current_time - (current_time % 60), next_time, accounts_))

\* the passes k = lo..hi of the day-by-day loops of _generate_readings and of
\* collect_readings: pass k has temp_current = current_time + (k - 1) days
RECURSIVE Days(_, _, _, _, _, _)
RECURSIVE DaysFrom(_, _, _, _, _, _)
Days(w, current_time, next_time, lo, hi, accounts_) ==
    IF lo > hi THEN w
    ELSE IF lo = hi
    THEN GenerateWithinDay(w, current_time + (lo - 1) * MinutesPerDay,
                           Min(current_time + lo * MinutesPerDay, next_time), accounts_)
    ELSE DaysFrom(Days(w, current_time, next_time, lo, (lo + hi) \div 2, accounts_),
                  current_time, next_time, ((lo + hi) \div 2) + 1, hi, accounts_)

\* the passes lo..hi once the earlier ones gave w
DaysFrom(w, current_time, next_time, lo, hi, accounts_) ==
    IF w.random_state.draws >= 0    \* the earlier passes are made first
    THEN Days(w, current_time, next_time, lo, hi, accounts_) ELSE w

\* "while temp_current < next_time": one pass per started day of the span
DayByDay(w, current_time, next_time, accounts_) ==
    Days(w, current_time, next_time, 1,
         IF current_time < next_time
         THEN ((next_time - current_time - 1) \div MinutesPerDay) + 1 ELSE 0,
         accounts_)

\* _generate_readings; the readings it returns are appended to w.all_readings
_generate_readings(w, current_time, next_time, accounts_) ==
    IF (next_time - current_time) * 60 > 86400
    THEN DayByDay(w, current_time, next_time, accounts_)
    ELSE GenerateWithinDay(w, current_time, next_time, accounts_)

Units == {"minutes", "hours", "days", "months"}

\* a variant of _calculate_next_time that carries the year one month early:
\* next_month // 12 in place of (next_month - 1) // 12
_calculate_next_time_early_carry(current_time, increment_unit, increment_value) ==
    IF increment_unit = "minutes" THEN current_time + increment_value
    ELSE IF increment_unit = "hours" THEN current_time + 60 * increment_value
    ELSE IF increment_unit = "days" THEN current_time + MinutesPerDay * increment_value
    ELSE
        LET next_month0 == Month(current_time) + increment_value
            next_year == Year(current_time) + (next_month0 \div 12)
            next_month == ((next_month0 - 1) % 12) + 1
            last_day_of_next_month == monthrange(next_year, next_month)
            next_day == Min(Day(current_time), last_day_of_next_month)
        IN  MkTime(next_year, next_month, next_day, Hour(current_time), Minute(current_time))

\* _calculate_next_time for a valid unit
_calculate_next_time(current_time, increment_unit, increment_value) ==
    IF increment_unit = "minutes" THEN current_time + increment_value
    ELSE IF increment_unit = "hours" THEN current_time + 60 * increment_value
    ELSE IF increment_unit = "days" THEN current_time + MinutesPerDay * increment_value
    ELSE
        LET next_month0 == Month(current_time) + increment_value
            next_year == Year(current_time) + ((next_month0 - 1) \div 12)
            next_month == ((next_month0 - 1) % 12) + 1
            last_day_of_next_month == monthrange(next_year, next_month)
            next_day == Min(Day(current_time), last_day_of_next_month)
        IN  MkTime(next_year, next_month, next_day, Hour(current_time), Minute(current_time))

\* get_current_time: the saved time; a missing file is created with the epoch
get_current_time(file) == IF file = NoFile THEN Epoch ELSE file[1]

-----------------------------------------------------------------------------
(* Requests the exploration makes *)

\* advances by a positive amount, in the four units and in an unknown one
PositiveRequests ==
    {<<"minutes", 30>>, <<"hours", 36>>, <<"days", 1>>, <<"months", 1>>, <<"weeks", 1>>}
\* the route passes any integer on: int(value) is not checked further
Requests == PositiveRequests \cup {<<"days", 0 - 1>>}

NoResponse ==
    [op |-> "none", arg |-> "", value |-> 0, error |-> "", old_time |-> 0,
     new_time |-> 0, all_readings |-> <<>>]

Init ==
    /\ accounts = <<>>
    /\ current_time_file = NoFile
    /\ latest_readings = EmptyMap
    /\ daily_cache = <<>>
    /\ month_dirs = {}
    /\ daily_files = EmptyMap
    /\ monthly_file = NoFile
    /\ response = NoResponse
    /\ archive_log = <<>>
    /\ random_state = [draws |-> 0]
    /\ calls = 0
    /\ calc = [t |-> 0, v |-> 0, out |-> 0, done |-> FALSE]

\* a variant of register_meter that seeds latest_readings before it looks
\* for the id among the accounts
register_meter_seeding_first(meter_id) ==
    IF \E i \in 1..Len(accounts) : accounts[i].meter_ID = meter_id
    THEN /\ response' = [NoResponse EXCEPT !.op = "register_meter", !.arg = meter_id,
                                           !.error = "Meter ID already exists"]
         /\ archive_log' = <<>>
         /\ latest_readings' = Put(latest_readings, meter_id, 0)
         /\ UNCHANGED <<accounts, current_time_file, daily_cache,
                        month_dirs, daily_files, monthly_file, random_state, calc, calls>>
    ELSE LET current_time == get_current_time(current_time_file)
             account == [meter_ID |-> meter_id, register_time |-> current_time]
             reading == [meter_id |-> meter_id, reading_time |-> current_time,
                         meter_value |-> 0]
         IN  /\ calls < MaxCalls
             /\ calls' = calls + 1
             /\ current_time_file' = File(current_time)
             /\ accounts' = Append(accounts, account)
             /\ latest_readings' = Put(latest_readings, meter_id, 0)
             /\ daily_cache' = Append(daily_cache, reading)
             /\ response' = [NoResponse EXCEPT !.op = "register_meter", !.arg = meter_id,
                                               !.old_time = current_time,
                                               !.new_time = current_time]
             /\ archive_log' = <<>>
             /\ UNCHANGED <<month_dirs, daily_files, monthly_file, random_state, calc>>

\* POST /register
register_meter(meter_id) ==
    IF \E i \in 1..Len(accounts) : accounts[i].meter_ID = meter_id
    THEN /\ response' = [NoResponse EXCEPT !.op = "register_meter", !.arg = meter_id,
                                           !.error = "Meter ID already exists"]
         /\ archive_log' = <<>>
         /\ UNCHANGED <<accounts, current_time_file, latest_readings, daily_cache,
                        month_dirs, daily_files, monthly_file, random_state, calc, calls>>
    ELSE LET current_time == get_current_time(current_time_file)
             account == [meter_ID |-> meter_id, register_time |-> current_time]
             reading == [meter_id |-> meter_id, reading_time |-> current_time,
                         meter_value |-> 0]
         IN  /\ calls < MaxCalls
             /\ calls' = calls + 1
             /\ current_time_file' = File(current_time)
             /\ accounts' = Append(accounts, account)
             /\ latest_readings' = Put(latest_readings, meter_id, 0)
             /\ daily_cache' = Append(daily_cache, reading)
             /\ response' = [NoResponse EXCEPT !.op = "register_meter", !.arg = meter_id,
                                               !.old_time = current_time,
                                               !.new_time = current_time]
             /\ archive_log' = <<>>
             /\ UNCHANGED <<month_dirs, daily_files, monthly_file, random_state, calc>>

\* the body of collect_readings after the accounts and the unit were checked
CollectBody(w, current_time, next_time, increment_unit) ==
    IF increment_unit = "months"
    THEN DayByDay(w, current_time, next_time, accounts)
    ELSE _generate_readings(w, current_time, next_time, accounts)

\* a variant of the end of collect_readings that saves the time the call
\* started from
CollectDoneKeepingClock(call, current_time, next_time, w) ==
    /\ calls < MaxCalls
    /\ calls' = calls + 1
    /\ latest_readings' = w.latest_readings
    /\ daily_cache' = w.daily_cache
    /\ month_dirs' = w.month_dirs
    /\ daily_files' = w.daily_files
    /\ monthly_file' = w.monthly_file
    /\ random_state' = w.random_state
    /\ archive_log' = w.archive_log
    /\ current_time_file' = File(current_time)
    /\ response' = [call EXCEPT !.old_time = current_time, !.new_time = next_time,
                                !.all_readings = w.all_readings]
    /\ UNCHANGED <<accounts, calc>>

\* the end of collect_readings: w is what the body left, the time is saved
CollectDone(call, current_time, next_time, w) ==
    /\ calls < MaxCalls
    /\ calls' = calls + 1
    /\ latest_readings' = w.latest_readings
    /\ daily_cache' = w.daily_cache
    /\ month_dirs' = w.month_dirs
    /\ daily_files' = w.daily_files
    /\ monthly_file' = w.monthly_file
    /\ random_state' = w.random_state
    /\ archive_log' = w.archive_log
    /\ current_time_file' = File(next_time)
    /\ response' = [call EXCEPT !.old_time = current_time, !.new_time = next_time,
                                !.all_readings = w.all_readings]
    /\ UNCHANGED <<accounts, calc>>

\* collect_readings once the accounts and the unit were checked
CollectFrom(call, current_time, next_time, increment_unit) ==
    CollectDone(call, current_time, next_time,
                CollectBody([latest_readings |-> latest_readings,
                             daily_cache |-> daily_cache,
                             month_dirs |-> month_dirs, daily_files |-> daily_files,
                             monthly_file |-> monthly_file, random_state |-> random_state,
                             all_readings |-> <<>>, archive_log |-> <<>>],
                            current_time, next_time, increment_unit))

\* collect_readings with no account: raise ValueError("No registered accounts")
NoAccounts(call) ==
    /\ response' = [call EXCEPT !.error = "No registered accounts"]
    /\ archive_log' = <<>>
    /\ UNCHANGED <<accounts, current_time_file, latest_readings, daily_cache,
                   month_dirs, daily_files, monthly_file, random_state, calc, calls>>

\* a variant of InvalidUnit that drops the pending readings before it raises
InvalidUnitDroppingCache(call) ==
    /\ current_time_file' = File(get_current_time(current_time_file))
    /\ response' = [call EXCEPT !.error = "Invalid time unit",
                                !.old_time = get_current_time(current_time_file),
                                !.new_time = get_current_time(current_time_file)]
    /\ archive_log' = <<>>
    /\ daily_cache' = <<>>
    /\ UNCHANGED <<accounts, latest_readings, month_dirs, daily_files,
                   monthly_file, random_state, calc, calls>>

\* collect_readings with an unknown unit: the time is read, then
\* _calculate_next_time raises ValueError("Invalid time unit")
InvalidUnit(call) ==
    /\ current_time_file' = File(get_current_time(current_time_file))
    /\ response' = [call EXCEPT !.error = "Invalid time unit",
                                !.old_time = get_current_time(current_time_file),
                                !.new_time = get_current_time(current_time_file)]
    /\ archive_log' = <<>>
    /\ UNCHANGED <<accounts, latest_readings, daily_cache, month_dirs, daily_files,
                   monthly_file, random_state, calc, calls>>

\* POST /meter_reading
collect_readings(increment_unit, increment_value) ==
    LET call == [NoResponse EXCEPT !.op = "collect_readings", !.arg = increment_unit,
                                   !.value = increment_value]
    IN
    IF accounts = <<>> THEN NoAccounts(call)
    ELSE IF increment_unit \notin Units THEN InvalidUnit(call)
    ELSE CollectFrom(call, get_current_time(current_time_file),
                     _calculate_next_time(get_current_time(current_time_file),
                                          increment_unit, increment_value),
                     increment_unit)

\* a variant of reset_system that leaves the fields of the object as they are
reset_system_files_only ==
    /\ calls < MaxCalls
    /\ calls' = calls + 1
    /\ month_dirs' = {}
    /\ daily_files' = EmptyMap
    /\ monthly_file' = NoFile
    /\ accounts' = <<>>
    /\ current_time_file' = File(Epoch)
    /\ response' = [NoResponse EXCEPT !.op = "reset_system", !.new_time = Epoch]
    /\ archive_log' = <<>>
    /\ UNCHANGED <<latest_readings, daily_cache, random_state, calc>>

\* GET /reset
reset_system ==
    /\ calls < MaxCalls
    /\ calls' = calls + 1
    /\ month_dirs' = {}
    /\ daily_files' = EmptyMap
    /\ monthly_file' = NoFile
    /\ accounts' = <<>>
    /\ current_time_file' = File(Epoch)
    /\ latest_readings' = EmptyMap
    /\ daily_cache' = <<>>
    /\ response' = [NoResponse EXCEPT !.op = "reset_system", !.new_time = Epoch]
    /\ archive_log' = <<>>
    /\ UNCHANGED <<random_state, calc>>

\* GET /current_time
current_time_route ==
    /\ current_time_file' = File(get_current_time(current_time_file))
    /\ UNCHANGED <<accounts, latest_readings, daily_cache, month_dirs, daily_files,
                   monthly_file, response, archive_log, random_state, calc, calls>>

\* a registration names an id that is registered already or the next new one
Register ==
    \E i \in 1..Min(Len(accounts) + 1, Len(MeterIds)) : register_meter(MeterIds[i])
Collect == \E r \in Requests : collect_readings(r[1], r[2])
CollectPositive == \E r \in PositiveRequests : collect_readings(r[1], r[2])

Next == Register \/ Collect \/ reset_system \/ current_time_route

Spec == Init /\ [][Next]_vars

\* the same system when every advance is by a positive amount
NextPositive == Register \/ CollectPositive \/ reset_system \/ current_time_route

PositiveSpec == Init /\ [][NextPositive]_vars

-----------------------------------------------------------------------------
(* _calculate_next_time on its own: calc.t and calc.v are its arguments for  *)
(* the unit "months", calc.out its result once calc.done                     *)

\* the times of day the arguments are taken at, in minutes after 00:00
CalcMinutes == {0, 13 * 60 + 30}

InitCalc ==
    /\ accounts = <<>>
    /\ current_time_file = NoFile
    /\ latest_readings = EmptyMap
    /\ daily_cache = <<>>
    /\ month_dirs = {}
    /\ daily_files = EmptyMap
    /\ monthly_file = NoFile
    /\ response = NoResponse
    /\ archive_log = <<>>
    /\ random_state = [draws |-> 0]
    /\ calls = 0
    /\ \E d \in 0..MaxCalcDay, m \in CalcMinutes, v \in 1..MaxCalcValue :
          calc = [t |-> d * MinutesPerDay + m, v |-> v, out |-> 0, done |-> FALSE]

calculate ==
    /\ ~calc.done
    /\ calc' = [calc EXCEPT !.out = _calculate_next_time(calc.t, "months", calc.v),
                            !.done = TRUE]
    /\ UNCHANGED <<accounts, current_time_file, latest_readings, daily_cache, month_dirs,
                   daily_files, monthly_file, response, archive_log, random_state, calls>>

NextCalc == calculate

CalcSpec == InitCalc /\ [][NextCalc]_vars

-----------------------------------------------------------------------------
(* _process_daily_data on its own: calc.t is its argument current_date and   *)
(* calc.v the number of times it has run on the cache the state starts with  *)

\* the readings the cache starts with are taken from these
CommitReadings ==
    [meter_id : {"A", "B"},
     reading_time : {MkTime(2024, 5, 2, 12, 30), MkTime(2024, 5, 2, 13, 0)},
     meter_value : {0, ValueUnit}]

CommitCaches ==
    UNION {[1..n -> CommitReadings] : n \in 0..MaxCacheLen}

\* the daily files the state starts with: none, or one of an earlier commit
\* for the same day
CommitFiles ==
    {EmptyMap,
     [k \in {<<2024, 5, 2>>} |->
        [m \in {"A"} |-> [date |-> <<2024, 5, 2>>,
                          readings |-> <<[time |-> 1200, value |-> 0]>>]]]}

InitCommit ==
    /\ accounts = <<>>
    /\ current_time_file = NoFile
    /\ latest_readings = EmptyMap
    /\ monthly_file = NoFile
    /\ response = NoResponse
    /\ archive_log = <<>>
    /\ random_state = [draws |-> 0]
    /\ calls = 0
    /\ daily_cache \in CommitCaches
    /\ daily_files \in CommitFiles
    /\ month_dirs = {<<k[1], k[2]>> : k \in DOMAIN daily_files}
    /\ calc = [t |-> MkTime(2024, 5, 2, 13, 0), v |-> 0, out |-> 0, done |-> FALSE]

\* what one run of _process_daily_data leaves
CommitDone(w) ==
    /\ daily_cache' = w.daily_cache
    /\ month_dirs' = w.month_dirs
    /\ daily_files' = w.daily_files
    /\ calc' = [calc EXCEPT !.v = @ + 1]
    /\ UNCHANGED <<accounts, current_time_file, latest_readings, monthly_file,
                   response, archive_log, random_state, calls>>

commit ==
    /\ calc.v < MaxCommits
    /\ CommitDone(_process_daily_data(
                      [latest_readings |-> latest_readings, daily_cache |-> daily_cache,
                       month_dirs |-> month_dirs, daily_files |-> daily_files,
                       monthly_file |-> monthly_file, random_state |-> random_state,
                       all_readings |-> <<>>, archive_log |-> <<>>],
                      calc.t))

NextCommit == commit

CommitSpec == InitCommit /\ [][NextCommit]_vars

-----------------------------------------------------------------------------
(* _archive_and_prepare_monthly_data on its own: calc.t is its argument      *)
(* current_date at the last run, calc.v the number of runs, archive_log the  *)
(* record of every run                                                       *)

\* the days the state starts with daily files for
ArchiveDays == {<<2024, 5, 1>>, <<2024, 5, 31>>, <<2024, 6, 15>>, <<2024, 7, 1>>}

\* the daily file of day k with the meters ms: two entries a meter, the
\* values growing with the day
ArchiveFile(k, ms) ==
    [m \in ms |-> [date |-> k,
                   readings |-> <<[time |-> 130, value |-> k[3] * ValueUnit],
                                  [time |-> 2330, value |-> (k[3] + k[2]) * ValueUnit]>>]]

\* the daily files the state starts with: each of the days has no file, a
\* file with meter A, or a file with the meters A and B
ArchiveFiles ==
    {[k \in {d \in ArchiveDays : f[d] # {}} |-> ArchiveFile(k, f[k])] :
        f \in [ArchiveDays -> {{}, {"A"}, {"A", "B"}}]}

\* the values of current_date: the first days of June, July and August 2024
ArchiveDates ==
    {MkTime(2024, 6, 1, 0, 0), MkTime(2024, 7, 1, 0, 0), MkTime(2024, 8, 1, 0, 0)}

InitArchive ==
    /\ accounts = <<>>
    /\ current_time_file = NoFile
    /\ latest_readings = EmptyMap
    /\ daily_cache = <<>>
    /\ monthly_file = NoFile
    /\ response = NoResponse
    /\ archive_log = <<>>
    /\ random_state = [draws |-> 0]
    /\ calls = 0
    /\ daily_files \in ArchiveFiles
    /\ month_dirs = {<<k[1], k[2]>> : k \in DOMAIN daily_files}
    /\ calc = [t |-> 0, v |-> 0, out |-> 0, done |-> FALSE]

\* what one run of _archive_and_prepare_monthly_data leaves
ArchiveDone(w, current_date) ==
    /\ month_dirs' = w.month_dirs
    /\ daily_files' = w.daily_files
    /\ monthly_file' = w.monthly_file
    /\ archive_log' = w.archive_log
    /\ calc' = [calc EXCEPT !.t = current_date, !.v = @ + 1]
    /\ UNCHANGED <<accounts, current_time_file, latest_readings, daily_cache,
                   response, random_state, calls>>

archive ==
    /\ calc.v < MaxArchives
    /\ \E current_date \in ArchiveDates :
          ArchiveDone(_archive_and_prepare_monthly_data(
                          [latest_readings |-> latest_readings, daily_cache |-> daily_cache,
                           month_dirs |-> month_dirs, daily_files |-> daily_files,
                           monthly_file |-> monthly_file, random_state |-> random_state,
                           all_readings |-> <<>>, archive_log |-> archive_log],
                          current_date),
                      current_date)

NextArchive == archive

ArchiveSpec == InitArchive /\ [][NextArchive]_vars

-----------------------------------------------------------------------------
(* Properties *)

\* the last call was a collect_readings that returned
SuccessfulCollect == response.op = "collect_readings" /\ response.error = ""

\* the step is a call of collect_readings with the request r
CollectStep(r) ==
    /\ response'.op = "collect_readings"
    /\ response'.arg = r[1]
    /\ response'.value = r[2]
    /\ collect_readings(r[1], r[2])

\* the positions in the returned list of the readings of meter m on day d
ReturnedOn(m, d) ==
    {i \in 1..Len(response.all_readings) :
        /\ response.all_readings[i].meter_id = m
        /\ DayNumber(response.all_readings[i].reading_time) = d}

\* the calendar days that lie fully inside the interval the last call advanced over
FullDays ==
    {d \in DayNumber(response.old_time)..DayNumber(response.new_time) :
        /\ response.old_time <= d * MinutesPerDay
        /\ (d + 1) * MinutesPerDay <= response.new_time}

\* C1: a successful advance by a positive amount returns exactly 46 readings
\* per registered meter for every calendar day fully inside the interval; with
\* one meter, an advance of one day from the epoch ends on 2024-05-02T00:00 and
\* returns 46 readings.
C1_FortySixReadingsPerFullDay ==
    (SuccessfulCollect /\ response.value > 0) =>
        /\ \A d \in FullDays : \A i \in 1..Len(accounts) :
              Cardinality(ReturnedOn(accounts[i].meter_ID, d)) = 46
        /\ (/\ response.arg = "days" /\ response.value = 1
            /\ response.old_time = Epoch /\ Len(accounts) = 1)
           => /\ response.new_time = MkTime(2024, 5, 2, 0, 0)
              /\ Len(response.all_readings) = 46

\* C2: no reading in the pending cache or in a daily file has a time of day
\* in [00:00, 01:00), the reading register_meter emits included.
C2_NoReadingInMaintenanceWindow ==
    /\ \A i \in 1..Len(daily_cache) : TimeOfDay(daily_cache[i].reading_time) >= 100
    /\ \A k \in DOMAIN daily_files : \A m \in DOMAIN daily_files[k] :
          \A i \in 1..Len(daily_files[k][m].readings) :
              daily_files[k][m].readings[i].time >= 100

\* C3: across every call but a reset, the latest reading of a meter never
\* decreases, a meter keeps its latest reading, and a newly registered meter
\* starts at 0; every registered meter has a latest reading.
C3_LatestReadingsNonDecreasing ==
    [][response'.op # "reset_system" =>
          /\ \A m \in DOMAIN latest_readings :
                /\ m \in DOMAIN latest_readings'
                /\ latest_readings'[m] >= latest_readings[m]
          /\ \A m \in (DOMAIN latest_readings') \ (DOMAIN latest_readings) :
                latest_readings'[m] = 0
          /\ \A i \in 1..Len(accounts') :
                accounts'[i].meter_ID \in DOMAIN latest_readings']_vars

\* C3 witness: a collect call has raised the latest reading of a meter
C3_Witness ==
    /\ SuccessfulCollect
    /\ response.all_readings # <<>>
    /\ \E m \in DOMAIN latest_readings : latest_readings[m] > 0

\* the months daily files exist for, as month numbers from the epoch month
ArchivedMonths == {IdxOf(k[1], k[2]) : k \in DOMAIN daily_files}

\* the month of the simulated clock, as a month number from the epoch month
ClockMonth ==
    IdxOf(Year(get_current_time(current_time_file)),
          Month(get_current_time(current_time_file)))

\* C4: after a successful advance, when every advance was by a positive
\* amount, daily files exist for at most two months: the month of the clock
\* and the month before it.
C4_AtMostTwoMonthsOfDailyData ==
    SuccessfulCollect =>
        /\ Cardinality(ArchivedMonths) <= 2
        /\ ArchivedMonths \subseteq {ClockMonth - 1, ClockMonth}

\* C5: a collect_readings call with a value <= 0 (meters registered, valid
\* unit) fails with InvalidValue and leaves the clock, latest_readings, the
\* cache, the daily files and the monthly ledger as they were.
C5_NonPositiveValueRejected ==
    [][\A r \in Requests :
          (r[2] <= 0 /\ r[1] \in Units /\ accounts # <<>> /\ CollectStep(r)) =>
              /\ response'.error = "InvalidValue"
              /\ UNCHANGED <<current_time_file, latest_readings, daily_cache,
                             month_dirs, daily_files, monthly_file>>]_vars

\* C6: collect_readings fails with "No registered accounts" when there is no
\* account and with "Invalid time unit" when the unit is unknown, and a call
\* that fails so leaves the saved clock, latest_readings, the cache, the
\* daily files and the monthly ledger exactly as they were.
C6_FailedCollectChangesNothing ==
    [][\A r \in Requests :
          CollectStep(r) =>
              /\ accounts = <<>> => response'.error = "No registered accounts"
              /\ (accounts # <<>> /\ r[1] \notin Units) =>
                    response'.error = "Invalid time unit"
              /\ response'.error \in {"No registered accounts", "Invalid time unit"} =>
                    UNCHANGED <<current_time_file, latest_readings, daily_cache,
                                month_dirs, daily_files, monthly_file>>]_vars

\* C6 witness: a call has failed on its unit while readings were pending and
\* daily files existed
C6_Witness ==
    /\ response.op = "collect_readings"
    /\ response.error = "Invalid time unit"
    /\ daily_cache # <<>>
    /\ daily_files # EmptyMap

\* C7: every reading a successful advance from old to new returns has a
\* timestamp t with old < t <= new on a 30-minute boundary.
C7_ReadingsAfterOldUpToNew ==
    (SuccessfulCollect /\ response.value > 0) =>
        \A i \in 1..Len(response.all_readings) :
            /\ response.old_time < response.all_readings[i].reading_time
            /\ response.all_readings[i].reading_time <= response.new_time
            /\ response.all_readings[i].reading_time % 30 = 0

\* the <<meter, time>> pairs of the readings the last call returned
Returned ==
    {<<response.all_readings[i].meter_id, response.all_readings[i].reading_time>> :
        i \in 1..Len(response.all_readings)}

\* the 30-minute boundaries in (old, new] of the last call that are outside
\* the maintenance window [00:00, 01:00)
Boundaries ==
    {30 * k : k \in {j \in ((response.old_time \div 30) + 1)..(response.new_time \div 30) :
                        (30 * j) % MinutesPerDay >= 60}}

\* C8: a successful advance from old to new returns a reading of every
\* registered meter at every 30-minute boundary in (old, new] outside
\* [00:00, 01:00), in non-decreasing order of time.
C8_NoGapsAndInOrder ==
    (SuccessfulCollect /\ response.value > 0) =>
        /\ \A t \in Boundaries : \A i \in 1..Len(accounts) :
              <<accounts[i].meter_ID, t>> \in Returned
        /\ \A i \in 1..(Len(response.all_readings) - 1) :
              response.all_readings[i].reading_time
                  <= response.all_readings[i + 1].reading_time

\* the month calc.v months after the month of calc.t, as a month number from
\* the epoch month
CalcTarget == IdxOf(Year(calc.t), Month(calc.t)) + calc.v

\* C9: for the unit "months" and a value v >= 1 the result is in the month v
\* months after the argument's month, on the day min(day of the argument,
\* number of days of that month), at the same hour and minute; 2024-05-31T00:00
\* plus one month is 2024-06-30T00:00.
C9_MonthsAddClampsTheDay ==
    calc.done =>
        /\ Year(calc.out) = YearOfIdx(CalcTarget)
        /\ Month(calc.out) = MonthOfIdx(CalcTarget)
        /\ Day(calc.out) =
              Min(Day(calc.t), monthrange(YearOfIdx(CalcTarget), MonthOfIdx(CalcTarget)))
        /\ Hour(calc.out) = Hour(calc.t)
        /\ Minute(calc.out) = Minute(calc.t)
        /\ (calc.t = MkTime(2024, 5, 31, 0, 0) /\ calc.v = 1)
              => calc.out = MkTime(2024, 6, 30, 0, 0)

\* C9 witness: a result past December whose day was clamped
C9_Witness ==
    /\ calc.done
    /\ Year(calc.out) > Year(calc.t)
    /\ Day(calc.out) < Day(calc.t)

\* the archived readings of meter x in the month dir, each named by the day
\* of its file and its place in the file's list
ArchivedOf(files, dir, x) ==
    UNION {{<<k[3], i>> : i \in 1..Len(files[k][x].readings)} :
              k \in {j \in DOMAIN files : j[1] = dir[1] /\ j[2] = dir[2]
                                          /\ x \in DOMAIN files[j]}}

\* the archived reading that p names
ArchivedAt(files, dir, x, p) == files[<<dir[1], dir[2], p[1]>>][x].readings[p[2]]

\* p is not after q: an earlier day, or the same day and no later time
NotAfter(files, dir, x, p, q) ==
    \/ p[1] < q[1]
    \/ p[1] = q[1] /\ ArchivedAt(files, dir, x, p).time <= ArchivedAt(files, dir, x, q).time

\* the entry of meter x for the month dir in a ledger file: <<>> when there
\* is none, <<value>> otherwise
LedgerEntry(file, x, dir) ==
    IF file = NoFile THEN <<>>
    ELSE IF x \notin DOMAIN file[1] THEN <<>>
    ELSE IF dir \notin DOMAIN file[1][x] THEN <<>>
    ELSE <<file[1][x][dir]>>

\* what C10 asks of one run e of the monthly archiver that processed a month
LedgerIsLastMinusFirst(e) ==
    \A i \in 1..Len(MeterIds) :
        LET x == MeterIds[i]
            archived == ArchivedOf(e.daily_files_before, e.month_to_process, x)
            value(p) == ArchivedAt(e.daily_files_before, e.month_to_process, x, p).value
            before(p, q) == NotAfter(e.daily_files_before, e.month_to_process, x, p, q)
        IN  IF archived # {}
            THEN \E f \in archived, l \in archived :
                    /\ \A p \in archived : before(f, p) /\ before(p, l)
                    /\ LedgerEntry(e.monthly_file_after, x, e.month_to_process)
                          = <<value(l) - value(f)>>
            ELSE LedgerEntry(e.monthly_file_after, x, e.month_to_process)
                    = LedgerEntry(e.monthly_file_before, x, e.month_to_process)

\* C10: when the monthly archiver processes the month M, the ledger entry of
\* every meter with an archived reading in M becomes the chronologically last
\* archived value of the meter in M minus the chronologically first one, and
\* a meter with no archived reading in M gets no entry for M: its entry, or
\* the lack of one, stays as it was.
C10_LedgerIsLastMinusFirst ==
    \A n \in 1..Len(archive_log) :
        ~archive_log[n].returned_early => LedgerIsLastMinusFirst(archive_log[n])

\* C10 witness: the archiver has processed a month in which a meter has
\* readings in several files and has entered a positive total for it
C10_Witness ==
    \E n \in 1..Len(archive_log) :
        /\ ~archive_log[n].returned_early
        /\ \E i \in 1..Len(MeterIds) :
              /\ \E p, q \in ArchivedOf(archive_log[n].daily_files_before,
                                        archive_log[n].month_to_process, MeterIds[i]) :
                    p[1] # q[1]
              /\ LedgerEntry(archive_log[n].monthly_file_after, MeterIds[i],
                             archive_log[n].month_to_process) # <<>>
              /\ LedgerEntry(archive_log[n].monthly_file_after, MeterIds[i],
                             archive_log[n].month_to_process)[1] > 0

\* the number of readings of meter m in the list rs
CountOf(rs, m) == Cardinality({i \in 1..Len(rs) : rs[i].meter_id = m})

\* C11: a second run of _process_daily_data right after a first one for the
\* same day leaves the daily files as the first run left them; the first run
\* gives every meter of the cache one entry per pending reading, so that the
\* two runs leave one entry per pending reading and not two.
C11_DailyCommitIsIdempotent ==
    [][calc'.v = calc.v + 1 =>
          /\ calc.v >= 1 => UNCHANGED <<daily_files, month_dirs>>
          /\ (calc.v = 0 /\ daily_cache # <<>>) =>
                /\ DayKey(calc.t) \in DOMAIN daily_files'
                /\ \A i \in 1..Len(daily_cache) :
                      /\ daily_cache[i].meter_id \in DOMAIN daily_files'[DayKey(calc.t)]
                      /\ Len(daily_files'[DayKey(calc.t)][daily_cache[i].meter_id].readings)
                            = CountOf(daily_cache, daily_cache[i].meter_id)]_vars

\* C11 witness: _process_daily_data has run twice on a cache of two readings
\* of a meter, over a file the day already had
C11_Witness ==
    /\ calc.v = 2
    /\ <<2024, 5, 2>> \in DOMAIN daily_files
    /\ "A" \in DOMAIN daily_files[<<2024, 5, 2>>]
    /\ Len(daily_files[<<2024, 5, 2>>]["A"].readings) = 2
    /\ daily_files[<<2024, 5, 2>>]["A"].readings[1].time = 1230

\* the step is a call of register_meter with the id
RegisterStep(meter_id) ==
    /\ response'.op = "register_meter"
    /\ response'.arg = meter_id
    /\ register_meter(meter_id)

\* the id is among the accounts
Registered(meter_id) == \E i \in 1..Len(accounts) : accounts[i].meter_ID = meter_id

\* C12: register_meter with a registered id fails with "Meter ID already
\* exists" and leaves the accounts, latest_readings, the cache and the clock
\* as they were; with a new id it appends one account, sets the id's latest
\* reading to 0, keeps the other latest readings, and appends one zero-value
\* reading stamped with the clock to the cache.
C12_RegisterMeter ==
    [][\A n \in 1..Len(MeterIds) :
          RegisterStep(MeterIds[n]) =>
              IF Registered(MeterIds[n])
              THEN /\ response'.error = "Meter ID already exists"
                   /\ UNCHANGED <<accounts, latest_readings, daily_cache,
                                  current_time_file>>
              ELSE /\ response'.error = ""
                   /\ Len(accounts') = Len(accounts) + 1
                   /\ SubSeq(accounts', 1, Len(accounts)) = accounts
                   /\ accounts'[Len(accounts')].meter_ID = MeterIds[n]
                   /\ DOMAIN latest_readings' = (DOMAIN latest_readings) \cup {MeterIds[n]}
                   /\ latest_readings'[MeterIds[n]] = 0
                   /\ \A m \in (DOMAIN latest_readings) \ {MeterIds[n]} :
                         latest_readings'[m] = latest_readings[m]
                   /\ daily_cache' =
                         Append(daily_cache,
                                [meter_id |-> MeterIds[n],
                                 reading_time |-> get_current_time(current_time_file),
                                 meter_value |-> 0])
                   /\ get_current_time(current_time_file')
                         = get_current_time(current_time_file)]_vars

\* C12 witness: a registration has failed on an id whose latest reading was
\* above 0, and has left it there
C12_Witness ==
    /\ response.op = "register_meter"
    /\ response.error = "Meter ID already exists"
    /\ response.arg \in DOMAIN latest_readings
    /\ latest_readings[response.arg] > 0

\* C13: a reset leaves no daily file and no month directory, no monthly
\* ledger, no account, no latest reading, an empty cache and the saved clock
\* at the epoch 2024-05-01T00:00, whatever the state it started from.
C13_ResetClearsEverything ==
    [][response'.op = "reset_system" =>
          /\ daily_files' = EmptyMap
          /\ month_dirs' = {}
          /\ monthly_file' = NoFile
          /\ accounts' = <<>>
          /\ latest_readings' = EmptyMap
          /\ daily_cache' = <<>>
          /\ current_time_file' = File(MkTime(2024, 5, 1, 0, 0))]_vars

\* C13 witness: a reset has run after at least two earlier calls that
\* changed the stored data
C13_Witness ==
    /\ response.op = "reset_system"
    /\ calls >= 3
    /\ accounts = <<>>
    /\ daily_files = EmptyMap

\* the month of a time, as a month number from the epoch month
MonthIdx(t) == IdxOf(Year(t), Month(t))

\* C14: a successful collect_readings that moves the clock into another
\* calendar month invokes _archive_and_prepare_monthly_data during the call
\* with a time of the new month (the claim names the new time itself),
\* whatever the time of day the advance started at.
C14_ArchiverRunsOnMonthChange ==
    (SuccessfulCollect /\ MonthIdx(response.old_time) # MonthIdx(response.new_time)) =>
        \E n \in 1..Len(archive_log) :
            MonthIdx(archive_log[n].current_date) = MonthIdx(response.new_time)

\* C15: _archive_and_prepare_monthly_data is invoked only by a collect_readings
\* whose old and new clock lie in different calendar months; an advance that
\* stays inside one month never invokes it.
C15_ArchiverOnlyOnMonthChange ==
    (SuccessfulCollect /\ MonthIdx(response.old_time) = MonthIdx(response.new_time)) =>
        archive_log = <<>>

\* the entries of meter m in the file of day k, as a set
EntriesOf(files, k, m) ==
    IF k \in DOMAIN files
    THEN IF m \in DOMAIN files[k]
         THEN {files[k][m].readings[i] : i \in 1..Len(files[k][m].readings)}
         ELSE {}
    ELSE {}

\* C16: an entry a daily commit has written is still in the file of its day,
\* with its value, after every later register_meter or collect_readings, as
\* long as the month directory of the day is kept; a later commit for the
\* day adds entries and drops none.
C16_ArchivedEntriesAreKept ==
    [][response'.op # "reset_system" =>
          \A k \in DOMAIN daily_files :
              <<k[1], k[2]>> \in month_dirs' =>
                  \A m \in DOMAIN daily_files[k] :
                      EntriesOf(daily_files, k, m) \subseteq EntriesOf(daily_files', k, m)]_vars

\* the times of day of the readings of meter m in rs that are stamped
\* with day number d
TimesOn(rs, m, d) ==
    {TimeOfDay(rs[i].reading_time) :
        i \in {j \in 1..Len(rs) : rs[j].meter_id = m /\ DayNumber(rs[j].reading_time) = d}}

\* C17: a commit files every pending reading under the calendar day of the
\* reading's own timestamp: an entry that a register_meter or collect_readings
\* step adds to the file of a day comes from a reading of that meter on that
\* day, with that time of day, among those pending before the step and those
\* the call returns; this includes a registration made in hour 00 of a day.
C17_EntriesFiledUnderOwnDay ==
    [][response'.op # "reset_system" =>
          \A k \in DOMAIN daily_files' : \A m \in DOMAIN daily_files'[k] :
              {e.time : e \in EntriesOf(daily_files', k, m) \ EntriesOf(daily_files, k, m)}
                  \subseteq TimesOn(daily_cache \o response'.all_readings, m,
                                    DayNumber(MkTime(k[1], k[2], k[3], 0, 0)))]_vars

\* the <<meter, timestamp>> pairs of the readings in rs
StampsOf(rs) == {<<rs[i].meter_id, rs[i].reading_time>> : i \in 1..Len(rs)}

\* no meter has two entries with the same time of day in a daily file
NoDoubleEntries(files) ==
    \A k \in DOMAIN files : \A m \in DOMAIN files[k] :
        Cardinality({files[k][m].readings[i].time : i \in 1..Len(files[k][m].readings)})
            = Len(files[k][m].readings)

\* C18: no two readings are produced for the same meter with the same
\* timestamp: a collect_readings call returns no timestamp twice for a meter,
\* none that the call before it returned for the meter, and none of a pending
\* registration reading of the meter; no daily file holds two entries of a
\* meter for the same time of day.
C18_NoTwoReadingsWithOneTimestamp ==
    [][(calls' = calls + 1 /\ response'.op = "collect_readings") =>
          /\ Cardinality(StampsOf(response'.all_readings)) = Len(response'.all_readings)
          /\ StampsOf(response'.all_readings) \cap StampsOf(response.all_readings) = {}
          /\ StampsOf(response'.all_readings) \cap StampsOf(daily_cache) = {}
          /\ NoDoubleEntries(daily_files')]_vars

\* the entries _process_daily_data writes for the readings in rs, each with
\* its meter
EntriesFor(rs) ==
    {<<rs[i].meter_id, [time |-> TimeOfDay(rs[i].reading_time),
                        value |-> round3(rs[i].meter_value)]>> : i \in 1..Len(rs)}

\* the entries the daily files hold, each with its meter
EntriesIn(files) ==
    UNION {UNION {{<<m, files[k][m].readings[i]>> : i \in 1..Len(files[k][m].readings)} :
                     m \in DOMAIN files[k]} : k \in DOMAIN files}

\* C19: a successful collect_readings with a positive value leaves the
\* pending cache empty, and every reading that was pending before the call
\* (from register_meter) or synthesized by it has an entry of its meter, with
\* its time of day and its value, in a daily file.
C19_CollectEmptiesTheCache ==
    [][(/\ calls' = calls + 1
        /\ response'.op = "collect_readings"
        /\ response'.error = ""
        /\ response'.value > 0) =>
          /\ daily_cache' = <<>>
          /\ EntriesFor(daily_cache \o response'.all_readings)
                \subseteq EntriesIn(daily_files')]_vars

\* C19 witness: an advance of less than a day has returned readings while a
\* registration reading of a second meter was pending, and has left the
\* cache empty
C19_Witness ==
    /\ SuccessfulCollect
    /\ response.value > 0
    /\ response.new_time - response.old_time < MinutesPerDay
    /\ response.all_readings # <<>>
    /\ Len(accounts) = 2
    /\ accounts[2].register_time = response.old_time
    /\ daily_cache = <<>>

\* C20: every run of _archive_and_prepare_monthly_data with the time c ends
\* with no daily file of a month before the month that precedes c's month,
\* whether or not it found data to aggregate and whether or not the month it
\* aggregates precedes the epoch month.
C20_ArchiverAlwaysPrunes ==
    \A n \in 1..Len(archive_log) :
        \A k \in DOMAIN archive_log[n].daily_files_after :
            IdxOf(k[1], k[2]) >= MonthIdx(archive_log[n].current_date) - 1

\* the <<meter, month>> keys of a ledger file
LedgerKeys(file) ==
    IF file = NoFile THEN {}
    ELSE UNION {{<<x, dir>> : dir \in DOMAIN file[1][x]} : x \in DOMAIN file[1]}

\* what C21 asks of one run e of the monthly archiver: every key of the
\* ledger is kept, with its value when its month is not the processed one
RunKeepsOtherMonths(e) ==
    \A key \in LedgerKeys(e.monthly_file_before) :
        /\ key \in LedgerKeys(e.monthly_file_after)
        /\ key[2] # e.month_to_process =>
              e.monthly_file_after[1][key[1]][key[2]]
                  = e.monthly_file_before[1][key[1]][key[2]]

\* C21: a run of _archive_and_prepare_monthly_data for the month M leaves
\* every ledger entry of another month as it was and removes no meter and no
\* month from the ledger; across every step but a reset the set of ledger
\* keys only grows.
C21_LedgerOnlyGrows ==
    [][response'.op # "reset_system" =>
          /\ LedgerKeys(monthly_file) \subseteq LedgerKeys(monthly_file')
          /\ \A n \in 1..Len(archive_log') : RunKeepsOtherMonths(archive_log'[n])]_vars

\* C21 witness: a run has written the total of June 2024 for a meter whose
\* ledger record held the total of May 2024, and the May total is still there
C21_Witness ==
    /\ archive_log # <<>>
    /\ archive_log[Len(archive_log)].month_to_process = <<2024, 6>>
    /\ LedgerEntry(archive_log[Len(archive_log)].monthly_file_before, "A", <<2024, 5>>) # <<>>
    /\ LedgerEntry(archive_log[Len(archive_log)].monthly_file_before, "A", <<2024, 6>>) = <<>>
    /\ LedgerEntry(monthly_file, "A", <<2024, 6>>) # <<>>
    /\ LedgerEntry(monthly_file, "A", <<2024, 5>>)
          = LedgerEntry(archive_log[Len(archive_log)].monthly_file_before, "A", <<2024, 5>>)

\* C22: a run of _archive_and_prepare_monthly_data right after a run with the
\* same current_date leaves the monthly ledger, the daily files and the month
\* directories as the first run left them, so that no ledger entry the first
\* run wrote is changed or removed by the second.
C22_MonthlyArchivalIsIdempotent ==
    \A n \in 1..(Len(archive_log) - 1) :
        archive_log[n + 1].current_date = archive_log[n].current_date =>
            /\ archive_log[n + 1].monthly_file_after = archive_log[n].monthly_file_after
            /\ archive_log[n + 1].daily_files_after = archive_log[n].daily_files_after
            /\ archive_log[n + 1].month_dirs_after = archive_log[n].month_dirs_after

\* C22 witness: two runs in succession for 2024-07-01; the first found daily
\* files of May 2024 and wrote a total above 0 for meter A, the second found
\* none and the total is still there
C22_Witness ==
    /\ Len(archive_log) = 2
    /\ archive_log[1].current_date = MkTime(2024, 7, 1, 0, 0)
    /\ archive_log[2].current_date = MkTime(2024, 7, 1, 0, 0)
    /\ LedgerEntry(archive_log[1].monthly_file_before, "A", <<2024, 5>>) = <<>>
    /\ LedgerEntry(archive_log[1].monthly_file_after, "A", <<2024, 5>>) # <<>>
    /\ LedgerEntry(archive_log[1].monthly_file_after, "A", <<2024, 5>>)[1] > 0
    /\ \A k \in DOMAIN archive_log[2].daily_files_before : <<k[1], k[2]>> # <<2024, 5>>
    /\ LedgerEntry(monthly_file, "A", <<2024, 5>>)
          = LedgerEntry(archive_log[1].monthly_file_after, "A", <<2024, 5>>)

\* the step is a collect_readings call that returned
CollectReturned ==
    /\ calls' = calls + 1
    /\ response'.op = "collect_readings"
    /\ response'.error = ""

\* the step is a reset
ResetDone == calls' = calls + 1 /\ response'.op = "reset_system"

\* C23, as amended: the time the persisted clock reads as (the epoch while
\* current_time.json is missing) changes only in a collect_readings call that
\* returns, which saves the computed new time, and in a reset, which saves the
\* epoch; register_meter and a collect_readings call that raises leave it as
\* it was. The one other write of current_time.json is its creation with the
\* epoch by get_current_time when the file is missing.
C23_ClockChangesOnlyOnAdvanceOrReset ==
    [][/\ CollectReturned => current_time_file' = File(response'.new_time)
       /\ ResetDone => current_time_file' = File(Epoch)
       /\ ~(CollectReturned \/ ResetDone) =>
             /\ get_current_time(current_time_file') = get_current_time(current_time_file)
             /\ current_time_file' # current_time_file =>
                   (current_time_file = NoFile /\ current_time_file' = File(Epoch))]_vars

\* C23 witness: a collect_readings call has raised on its unit after the
\* clock had been advanced, and the persisted clock is where the advance
\* left it
C23_Witness ==
    /\ response.op = "collect_readings"
    /\ response.error = "Invalid time unit"
    /\ current_time_file # NoFile
    /\ current_time_file # File(Epoch)
    /\ current_time_file = File(response.old_time)

\* C23 as stated: current_time.json is written only by a collect_readings
\* call that returns (with the new time) and by a reset (with the epoch);
\* every other step, register_meter included, leaves the file as it was.
C23_ClockWrittenOnlyOnAdvanceOrReset ==
    [][current_time_file' # current_time_file =>
          \/ CollectReturned /\ current_time_file' = File(response'.new_time)
          \/ ResetDone /\ current_time_file' = File(Epoch)]_vars

====
